---- MODULE Spec2Model ----
(***************************************************************************)
(* A model of complex-args: the grammar parser (parser.py), the comparison *)
(* helpers (util.py) and the variables and deferred containers             *)
(* (variables.py).                                                         *)
(*                                                                         *)
(* Strings are sequences of one-character strings.  Positions returned by  *)
(* find are 0-based, as in Python, with -1 for "not found".                *)
(*                                                                         *)
(* Python objects live on a heap: a sequence of objects, a reference being *)
(* an index into it.  A function that allocates takes the heap and returns *)
(* a record holding the new heap.  An exception is the field exc of the    *)
(* returned record ("none" when the call returned normally).               *)
(***************************************************************************)
EXTENDS Integers, Sequences, FiniteSets, TLC

VARIABLES
    pc,            \* the position of the calling program
    text,          \* the string handed to the parser
    level_opener,  \* the strict level opener in use (a parameter of parse_tree)
    heap,          \* the Python heap
    outcome,       \* what the last call returned or raised
    space,         \* the value space (container) handed to evaluate
    original,      \* the original value handed to evaluate (NoValue for None)
    operand,       \* what else the call is given: the start position, the variable
    shape,         \* how the text was put together (the listings it was built from)
    kept,          \* the containers the calling program holds: first, second, merged
    before,        \* what first and second held when they were merged
    log            \* the changes made to a container so far, with the values drawn

vars == <<pc, text, level_opener, heap, outcome, space, original, operand, shape,
          kept, before, log>>

-----------------------------------------------------------------------------
(* Bounds of the model *)

\* longest free-form input text, in characters
MaxLen == 4
\* most sibling level-groups in a generated tree text
MaxGroups == 2
\* longest value space
MaxSpace == 3
\* largest sample size
MaxN == 2
\* most changes made to a merged container
MaxSteps == 2

-----------------------------------------------------------------------------
(* Default syntax and variable specifiers: parser.py 10-20 *)

listing_delimiter == <<",">>
range_delimiter == <<"~">>
default_level_opener == <<":", "[">>
level_closer == <<"]">>
level_delimiter == <<",">>
lazy_opener == <<":">>
index_specifier == <<"#">>
random_specifier == <<"?">>
all_specifier == <<"*">>

\* a strict opener the lazy opener is no prefix of, as a caller may configure
bracket_level_opener == <<"[">>

Digits == {"0", "1", "2", "3"}

-----------------------------------------------------------------------------
(* Python string primitives *)

\* s[from:] for 0 <= from
StrFrom(s, from) ==
    IF from >= Len(s) THEN <<>> ELSE SubSeq(s, from + 1, Len(s))

\* s[:to]; a negative to counts from the end
StrTo(s, to) ==
    IF to >= Len(s) THEN s
    ELSE IF to >= 0 THEN SubSeq(s, 1, to)
    ELSE IF Len(s) + to > 0 THEN SubSeq(s, 1, Len(s) + to) ELSE <<>>

\* does pat occur in s at 0-based position i
OccursAt(s, pat, i) ==
    /\ i + Len(pat) <= Len(s)
    /\ \A j \in 1..Len(pat) : s[i + j] = pat[j]

\* str.find(pat, start)
Find(s, pat, start) ==
    IF \E i \in start..(Len(s) - Len(pat)) : OccursAt(s, pat, i)
    THEN CHOOSE i \in start..(Len(s) - Len(pat)) :
            /\ OccursAt(s, pat, i)
            /\ \A j \in start..(i - 1) : ~OccursAt(s, pat, j)
    ELSE -1

\* str.startswith
startswith(s, pat) == OccursAt(s, pat, 0)

\* pat in s
Contains(s, pat) == Find(s, pat, 0) # -1

RECURSIVE Split(_, _)
\* str.split(sep): the segments between the occurrences of sep
Split(s, sep) ==
    IF Find(s, sep, 0) = -1 THEN <<s>>
    ELSE <<StrTo(s, Find(s, sep, 0))>>
            \o Split(StrFrom(s, Find(s, sep, 0) + Len(sep)), sep)

\* str.split(sep, 1) on a string that holds sep
SplitOnce(s, sep) ==
    <<StrTo(s, Find(s, sep, 0)), StrFrom(s, Find(s, sep, 0) + Len(sep))>>

DigitVal(c) ==
    CASE c = "0" -> 0 [] c = "1" -> 1 [] c = "2" -> 2 [] c = "3" -> 3

RECURSIVE Decimal(_)
Decimal(s) ==
    IF s = <<>> THEN 0
    ELSE 10 * Decimal(SubSeq(s, 1, Len(s) - 1)) + DigitVal(s[Len(s)])

\* int(s), on the characters of the model: a non-empty run of digits converts,
\* anything else raises ValueError
py_int(s) ==
    IF s # <<>> /\ \A i \in 1..Len(s) : s[i] \in Digits
    THEN [ok |-> TRUE, v |-> Decimal(s)]
    ELSE [ok |-> FALSE, v |-> 0]

-----------------------------------------------------------------------------
(* util.py *)

valid_comp(first, second) ==
    IF first = second THEN 0
    ELSE IF (first # -1 /\ first < second) \/ second = -1 THEN -1 ELSE 1

\* valid_min of two elements
valid_min(first, second) ==
    IF valid_comp(first, second) < 0 THEN first ELSE second

-----------------------------------------------------------------------------
(* Values, variables and the heap *)

\* None, where a value or a variable is expected
NoValue == [t |-> "None"]

\* a converted literal, as the int converter returns it
Lit(v) == [t |-> "Lit", v |-> v]

\* isinstance(x, Variable)
IsVariable(x) == x.t \in {"Size", "Index", "All", "Range", "Sample", "Random"}

\* SampleVariable and RandomVariable compare by _id, every other variable by
\* object identity
ComparesById(x) == x.t \in {"Sample", "Random"}

\* a normal return and a raised exception
Return(h, val, r) == [exc |-> "none", pos |-> -1, h |-> h, val |-> val, r |-> r]

Raise(exc, pos, h) == [exc |-> exc, pos |-> pos, h |-> h, val |-> NoValue, r |-> 0]

\* A new Variable object.  Its heap slot is its identity; for a SampleVariable the
\* slot number also stands for the _id drawn in __init__ (variables.py 287), which
\* the model takes to be unique.
NewVariable(h, fields) ==
    Return(Append(h, [kind |-> "var"]), [id |-> Len(h) + 1] @@ fields, Len(h) + 1)

EmptyMap == [k \in {} |-> 0]

\* a plain dict: vmap holds its value keys, tmap its variable keys
NewDict(h, vmap, tmap) ==
    Return(Append(h, [kind |-> "dict", vmap |-> vmap, tmap |-> tmap]), NoValue, Len(h) + 1)

\* VariableSet.__init__ (the partitions are sets nothing else refers to: they are
\* held in the object; vset and tset are the set's own elements)
VariableSet(h, fixed_parts, variable_parts) ==
    Return(Append(h, [kind |-> "VS",
                      fixed_parts |-> fixed_parts, variable_parts |-> variable_parts,
                      vset |-> fixed_parts, tset |-> variable_parts]),
           NoValue, Len(h) + 1)

\* VariableDict.__init__ on two dict objects: the partitions are kept by
\* reference, the dict's own items are updated from both
VariableDict(h, fixed_parts, variable_parts) ==
    Return(Append(h, [kind |-> "VD",
                      fixed_parts |-> fixed_parts, variable_parts |-> variable_parts,
                      vmap |-> h[fixed_parts].vmap, tmap |-> h[variable_parts].tmap]),
           NoValue, Len(h) + 1)

\* VariableDict(): default_if_none makes two new dicts
EmptyVariableDict(h) ==
    LET fixed == NewDict(h, EmptyMap, EmptyMap)
        variable == NewDict(fixed.h, EmptyMap, EmptyMap)
    IN  VariableDict(variable.h, fixed.r, variable.r)

Range(f) == {f[k] : k \in DOMAIN f}

\* the identities of the variable objects a key refers to
KeyRefs(keys) == {k.id : k \in {x \in keys : ~ComparesById(x)}}

\* the objects an object refers to
Refs(obj) ==
    CASE obj.kind = "var" -> {}
      [] obj.kind = "dict" -> Range(obj.vmap) \cup Range(obj.tmap) \cup KeyRefs(DOMAIN obj.tmap)
      [] obj.kind = "VS" -> KeyRefs(obj.variable_parts \cup obj.tset)
      [] obj.kind = "VD" -> {obj.fixed_parts, obj.variable_parts} \cup Range(obj.vmap)
                              \cup Range(obj.tmap) \cup KeyRefs(DOMAIN obj.tmap)

RECURSIVE Reach(_, _)
\* everything reachable from the objects of S
Reach(h, S) ==
    IF UNION {Refs(h[i]) : i \in S} \subseteq S THEN S
    ELSE Reach(h, S \cup UNION {Refs(h[i]) : i \in S})

\* a variable with its identity renamed by f (a copy of a SampleVariable keeps _id)
CopyKey(k, f) == IF ComparesById(k) THEN k ELSE [k EXCEPT !.id = f[@]]

CopyKeys(keys, f) == {CopyKey(k, f) : k \in keys}

CopyVMap(m, f) == [k \in DOMAIN m |-> f[m[k]]]

CopyTMap(m, f) ==
    [k \in CopyKeys(DOMAIN m, f) |-> f[m[CHOOSE x \in DOMAIN m : CopyKey(x, f) = k]]]

\* g, then f on top of it (dict.update)
Update(g, f) == f @@ g

\* The copy deepcopy makes of one object, f renaming the references.  A
\* VariableDict is rebuilt through __new__ with the copied partitions
\* (__getnewargs__), which runs __init__, and its items are then set one by one
\* on top; a VariableSet is rebuilt from its elements and gets its state back.
CopyObject(h, obj, f) ==
    CASE obj.kind = "var" -> obj
      [] obj.kind = "dict" ->
            [kind |-> "dict", vmap |-> CopyVMap(obj.vmap, f), tmap |-> CopyTMap(obj.tmap, f)]
      [] obj.kind = "VS" ->
            [kind |-> "VS",
             fixed_parts |-> obj.fixed_parts,
             variable_parts |-> CopyKeys(obj.variable_parts, f),
             vset |-> obj.vset, tset |-> CopyKeys(obj.tset, f)]
      [] obj.kind = "VD" ->
            [kind |-> "VD",
             fixed_parts |-> f[obj.fixed_parts], variable_parts |-> f[obj.variable_parts],
             vmap |-> Update(CopyVMap(h[obj.fixed_parts].vmap, f), CopyVMap(obj.vmap, f)),
             tmap |-> Update(CopyTMap(h[obj.variable_parts].tmap, f), CopyTMap(obj.tmap, f))]

\* copy.deepcopy, the objects to copy and their new names being known
copy_renamed(h, r, R, f) ==
    Return(h \o [k \in 1..Cardinality(R) |->
                    CopyObject(h, h[CHOOSE i \in R : f[i] = Len(h) + k], f)],
           NoValue, f[r])

\* copy.deepcopy of the objects R reachable from r
copy_reached(h, r, R) ==
    copy_renamed(h, r, R, [i \in R |-> Len(h) + Cardinality({j \in R : j <= i})])

\* deepcopy handing back the object itself
deepcopy_none(h, r) == Return(h, NoValue, r)

\* copy.deepcopy: one new object for each object reachable from r, sharing
\* kept as it is among the originals (the memo)
deepcopy(h, r) == copy_reached(h, r, Reach(h, {r}))

\* d[key] = value on a heap object, for a value key and for a variable key
SetVItem(h, d, key, value) == [h EXCEPT ![d].vmap = Update(@, [k \in {key} |-> value])]

SetTItem(h, d, key, value) == [h EXCEPT ![d].tmap = Update(@, [k \in {key} |-> value])]

SetMin(S) == CHOOSE x \in S : \A y \in S : x <= y

\* the next key a loop over a dict or a set of variables visits
FirstKey(S) == CHOOSE x \in S : \A y \in S : x.id <= y.id

RECURSIVE merge(_, _, _)
RECURSIVE merge_fixed(_, _, _, _)
RECURSIVE merge_variable(_, _, _, _)
RECURSIVE merge_fixed_overwriting(_, _, _, _)

\* merge_fixed with a key of both sides overwritten instead of merged
merge_fixed_overwriting(h, todo, fixed_parts, new_second) ==
    IF todo = {} THEN Return(h, NoValue, 0)
    ELSE merge_fixed_overwriting(
             SetVItem(h, fixed_parts, SetMin(todo), h[new_second].vmap[SetMin(todo)]),
             todo \ {SetMin(todo)}, fixed_parts, new_second)

\* variables.py 153: fixed_parts[element] = the merged sub-tree
merge_fixed_store(sub, todo, fixed_parts, new_second, element) ==
    IF sub.exc # "none" THEN sub
    ELSE merge_fixed(SetVItem(sub.h, fixed_parts, element, sub.r),
                     todo \ {element}, fixed_parts, new_second)

\* variables.py 150-153: one element of new_second.fixed_parts
merge_fixed_element(h, todo, fixed_parts, new_second, element) ==
    IF element \notin DOMAIN h[fixed_parts].vmap
    THEN merge_fixed(SetVItem(h, fixed_parts, element, h[new_second].vmap[element]),
                     todo \ {element}, fixed_parts, new_second)
    ELSE merge_fixed_store(merge(h, h[fixed_parts].vmap[element], h[new_second].vmap[element]),
                           todo, fixed_parts, new_second, element)

\* variables.py 149-153: the loop over new_second.fixed_parts
merge_fixed(h, todo, fixed_parts, new_second) ==
    IF todo = {} THEN Return(h, NoValue, 0)
    ELSE merge_fixed_element(h, todo, fixed_parts, new_second, SetMin(todo))

\* variables.py 159: variable_parts[element] = the merged sub-tree
merge_variable_store(sub, todo, variable_parts, new_second, element) ==
    IF sub.exc # "none" THEN sub
    ELSE merge_variable(SetTItem(sub.h, variable_parts, element, sub.r),
                        todo \ {element}, variable_parts, new_second)

\* variables.py 156-159: one element of new_second.variable_parts
merge_variable_element(h, todo, variable_parts, new_second, element) ==
    IF element \notin DOMAIN h[variable_parts].tmap
    THEN merge_variable(SetTItem(h, variable_parts, element, h[new_second].tmap[element]),
                        todo \ {element}, variable_parts, new_second)
    ELSE merge_variable_store(
             merge(h, h[variable_parts].tmap[element], h[new_second].tmap[element]),
             todo, variable_parts, new_second, element)

\* variables.py 155-159: the loop over new_second.variable_parts
merge_variable(h, todo, variable_parts, new_second) ==
    IF todo = {} THEN Return(h, NoValue, 0)
    ELSE merge_variable_element(h, todo, variable_parts, new_second, FirstKey(todo))

\* variables.py 161: the new VariableDict on the partitions of new_first
merge_result(new_first, done) ==
    IF done.exc # "none" THEN done
    ELSE VariableDict(done.h, done.h[new_first].fixed_parts, done.h[new_first].variable_parts)

\* variables.py 155-161, the fixed parts being merged
merge_variable_parts(new_first, new_second, done) ==
    IF done.exc # "none" THEN done
    ELSE merge_result(new_first,
             merge_variable(done.h, DOMAIN done.h[done.h[new_second].variable_parts].tmap,
                            done.h[new_first].variable_parts, new_second))

\* variables.py 146-161, on the two copies
merge_copies(h, new_first, new_second) ==
    merge_variable_parts(new_first, new_second,
        merge_fixed(h, DOMAIN h[h[new_second].fixed_parts].vmap,
                    h[new_first].fixed_parts, new_second))

\* variables.py 145: new_second = deepcopy(second)
merge_second(new_first, new_second) == merge_copies(new_second.h, new_first, new_second.r)

\* variables.py 144: new_first = deepcopy(first)
merge_first(new_first, second) ==
    merge_second(new_first.r, deepcopy(new_first.h, second))

\* variables.py 125-161
merge(h, first, second) ==
    IF h[first].kind # h[second].kind THEN Raise("ValueError", -1, h)
    ELSE IF h[first].kind = "VS"
    THEN VariableSet(h, h[first].fixed_parts \cup h[second].fixed_parts,
                        h[first].variable_parts \cup h[second].variable_parts)
    ELSE merge_first(deepcopy(h, first), second)

-----------------------------------------------------------------------------
(* parser.py: convert and unravel *)

\* parser.py 52 and 59: the variable made from int() of what follows the marker
convert_number(h, n, fields) ==
    IF n.ok THEN NewVariable(h, [n |-> n.v] @@ fields) ELSE Raise("ValueError", -1, h)

\* parser.py 64-68: the level converter, int in the model
convert_literal(h, v, overall_position) ==
    IF v.ok THEN Return(h, Lit(v.v), 0) ELSE Raise("ParseError", overall_position, h)

\* parser.py 48-68.  Every level converter of the model is int.
convert(h, value, overall_position) ==
    IF startswith(value, index_specifier)
    THEN IF startswith(value, index_specifier \o index_specifier)
         THEN NewVariable(h, [t |-> "Size"])
         ELSE convert_number(h, py_int(StrFrom(value, Len(index_specifier))),
                             [t |-> "Index"])
    ELSE IF startswith(value, random_specifier)
    THEN IF value = random_specifier
         THEN NewVariable(h, [t |-> "Random", n |-> 1,
                              ex |-> startswith(value, random_specifier \o random_specifier)])
         ELSE convert_number(h, py_int(StrFrom(value, Len(random_specifier))),
                             [t |-> "Sample",
                              ex |-> startswith(value, random_specifier \o random_specifier)])
    ELSE IF value = all_specifier
    THEN NewVariable(h, [t |-> "All"])
    ELSE convert_literal(h, py_int(value), overall_position)

\* parser.py 121: the position of the next segment
next_position(overall_position, range_element) ==
    overall_position + Len(range_element) + Len(listing_delimiter)

RECURSIVE unravel_loop(_, _, _, _, _, _)

\* parser.py 108 and 117: variable_parts.add(variable)
unravel_add(segments, i, fixed_parts, variable_parts, overall_position, variable) ==
    unravel_loop(variable.h, segments, i + 1, fixed_parts,
                 variable_parts \cup {variable.val},
                 next_position(overall_position, segments[i]))

\* parser.py 107-112: both ends of the range converted
unravel_range(segments, i, fixed_parts, variable_parts, overall_position, first, last) ==
    IF last.exc # "none" THEN last
    ELSE IF IsVariable(first.val) \/ IsVariable(last.val)
    THEN unravel_add(segments, i, fixed_parts, variable_parts, overall_position,
                     NewVariable(last.h, [t |-> "Range", first |-> first.val,
                                          last |-> last.val]))
    ELSE unravel_loop(last.h, segments, i + 1,
                      fixed_parts \cup (first.val.v .. last.val.v), variable_parts,
                      next_position(overall_position, segments[i]))

\* parser.py 105: the last end of the range, the first being converted
unravel_last(segments, i, fixed_parts, variable_parts, overall_position, ends, first) ==
    IF first.exc # "none" THEN first
    ELSE unravel_range(segments, i, fixed_parts, variable_parts, overall_position, first,
             convert(first.h, ends[2],
                     overall_position + Len(ends[1]) + Len(range_delimiter)))

\* parser.py 103-104: first_tmp, last_tmp = range_element.split(range_delimiter)
unravel_ends(h, segments, i, fixed_parts, variable_parts, overall_position, ends) ==
    IF Len(ends) # 2 THEN Raise("ValueError", -1, h)
    ELSE unravel_last(segments, i, fixed_parts, variable_parts, overall_position, ends,
                      convert(h, ends[1], overall_position))

\* parser.py 114-119: a segment that is one value
unravel_element(segments, i, fixed_parts, variable_parts, overall_position, element) ==
    IF element.exc # "none" THEN element
    ELSE IF IsVariable(element.val)
    THEN unravel_add(segments, i, fixed_parts, variable_parts, overall_position, element)
    ELSE unravel_loop(element.h, segments, i + 1, fixed_parts \cup {element.val.v},
                      variable_parts, next_position(overall_position, segments[i]))

\* parser.py 101-123: the loop over the segments of the listing, from segment i on
unravel_loop(h, segments, i, fixed_parts, variable_parts, overall_position) ==
    IF i > Len(segments) THEN VariableSet(h, fixed_parts, variable_parts)
    ELSE IF Contains(segments[i], range_delimiter)
    THEN unravel_ends(h, segments, i, fixed_parts, variable_parts, overall_position,
                      Split(segments[i], range_delimiter))
    ELSE unravel_element(segments, i, fixed_parts, variable_parts, overall_position,
                         convert(h, segments[i], overall_position))

\* parser.py 94-123
unravel(h, listing, overall_position) ==
    IF Len(listing) > 0
    THEN unravel_loop(h, Split(listing, listing_delimiter), 1, {}, {}, overall_position)
    ELSE VariableSet(h, {}, {})

-----------------------------------------------------------------------------
(* parser.py: parse_tree *)

RECURSIVE remove_trailing_lazy_openers(_)
\* parser.py 163-165
remove_trailing_lazy_openers(stack) ==
    IF Len(stack) > 0 /\ stack[Len(stack)] = lazy_opener
    THEN remove_trailing_lazy_openers(SubSeq(stack, 1, Len(stack) - 1))
    ELSE stack

\* list.pop() on a list that is not empty
Pop(stack) == SubSeq(stack, 1, Len(stack) - 1)

\* body_end with the end of input not told apart from a closer
body_end_at_closer(terminal, tail, next_closer) == next_closer

\* parser.py 225-230: where the body ends once the stack is empty
body_end(terminal, tail, next_closer) ==
    IF terminal THEN Len(tail) ELSE next_closer

\* what the loop that finds the closer ends with
Found(exc, pos, cur, done) == [exc |-> exc, pos |-> pos, cur |-> cur, done |-> done]

RECURSIVE find_closer(_, _, _, _)

\* parser.py 221-233: the stack after the closer (or the end of input) is handled
find_end(tail, stack, overall_position, next_closer, at_end) ==
    IF at_end /\ Len(stack) > 0
    THEN Found("ParseError", overall_position + Len(tail), 0, TRUE)
    ELSE IF Len(stack) = 0
    THEN Found("none", -1, body_end(next_closer = -1, tail, next_closer), at_end)
    ELSE find_closer(tail, stack, next_closer + Len(level_closer), overall_position)

\* parser.py 217-219: at the end of the tail the lazy openers are closed too
find_last(tail, stack, overall_position, next_closer) ==
    IF next_closer = -1 \/ next_closer + Len(level_closer) = Len(tail)
    THEN find_end(tail, remove_trailing_lazy_openers(stack), overall_position,
                  next_closer, TRUE)
    ELSE find_end(tail, stack, overall_position, next_closer, FALSE)

\* parser.py 214-215: if not terminal: stack.pop()
find_pop(tail, stack, overall_position, next_closer) ==
    IF next_closer = -1 THEN find_last(tail, stack, overall_position, next_closer)
    ELSE IF Len(stack) = 0 THEN Found("IndexError", -1, 0, FALSE)
    ELSE find_last(tail, Pop(stack), overall_position, next_closer)

\* parser.py 208-212: an opener comes first, or a closer (or nothing) does
find_step(tail, stack, overall_position, next_opener, next_opener_symbol, next_closer) ==
    IF valid_comp(next_opener, next_closer) < 0
    THEN find_closer(tail, Append(stack, next_opener_symbol),
                     next_opener + Len(next_opener_symbol), overall_position)
    ELSE find_pop(tail, remove_trailing_lazy_openers(stack), overall_position, next_closer)

\* parser.py 198-203: the next opener is the lazy one when it comes first
find_opener(tail, stack, overall_position, next_opener, next_lazy_opener, next_closer) ==
    IF valid_comp(next_lazy_opener, next_opener) < 0
    THEN find_step(tail, stack, overall_position, next_lazy_opener, lazy_opener, next_closer)
    ELSE find_step(tail, stack, overall_position, next_opener, level_opener, next_closer)

\* parser.py 194-233: the loop that finds the closer of the first opener.
\* Ends with the body's end (cur) and done, or with the exception raised.
find_closer(tail, stack, current_position, overall_position) ==
    find_opener(tail, stack, overall_position,
                Find(tail, level_opener, current_position),
                Find(tail, lazy_opener, current_position),
                Find(tail, level_closer, current_position))

\* dict.fromkeys(keys, value), for value keys and for variable keys
fromkeys(keys, value) == [k \in keys |-> value]

\* parser.py 251-253: where the next sibling level-group starts
next_tree_position(overall_position, first_lazy_opener, first_opener_symbol, shift) ==
    overall_position + first_lazy_opener + Len(first_opener_symbol) + shift

\* parser.py 245-246: the VariableDict of the group, every root bound to the
\* one sub-tree
group_dict(h, roots, sub_tree) ==
    LET fixed == NewDict(h, fromkeys(roots.fixed_parts, sub_tree), EmptyMap)
        variable == NewDict(fixed.h, EmptyMap, fromkeys(roots.variable_parts, sub_tree))
    IN  VariableDict(variable.h, fixed.r, variable.r)

\* parser.py 245: result = merge(result, VariableDict(...))
merge_group(result, group) == merge(group.h, result, group.r)

RECURSIVE parse_tree(_, _, _, _)
RECURSIVE parse_loop(_, _, _, _, _)

\* parser.py 248-253: done, or on to the next sibling level-group
parse_next(depth, overall_position, first_lazy_opener, first_opener_symbol, tail, found, merged) ==
    IF merged.exc # "none" \/ found.done THEN merged
    ELSE parse_loop(merged.h, merged.r,
                    StrFrom(tail, found.cur + Len(level_closer) + Len(level_delimiter)),
                    depth,
                    next_tree_position(overall_position, first_lazy_opener,
                        first_opener_symbol,
                        found.cur + Len(level_closer) + Len(level_delimiter)))

\* parser.py 245-246, the roots being unraveled
parse_merge(result, depth, overall_position, first_lazy_opener, first_opener_symbol, tail, found, sub_tree, roots_unraveled) ==
    IF roots_unraveled.exc # "none" THEN roots_unraveled
    ELSE parse_next(depth, overall_position, first_lazy_opener, first_opener_symbol, tail,
             found,
             merge_group(result, group_dict(roots_unraveled.h,
                                            roots_unraveled.h[roots_unraveled.r], sub_tree)))

\* parser.py 242-243, the sub-trees being parsed
parse_roots(result, depth, overall_position, first_lazy_opener, first_opener_symbol, next_roots, tail, found, sub_trees_processed) ==
    IF sub_trees_processed.exc # "none" THEN sub_trees_processed
    ELSE parse_merge(result, depth, overall_position, first_lazy_opener,
             first_opener_symbol, tail, found, sub_trees_processed.r,
             unravel(sub_trees_processed.h, next_roots, overall_position))

\* parser.py 235-240, the end of the body being found
parse_sub_trees(h, result, depth, overall_position, first_lazy_opener, first_opener_symbol, next_roots, tail, found) ==
    IF found.exc # "none" THEN Raise(found.exc, found.pos, h)
    ELSE parse_roots(result, depth, overall_position, first_lazy_opener,
             first_opener_symbol, next_roots, tail, found,
             parse_tree(h, StrTo(tail, found.cur), depth - 1,
                        overall_position + Len(next_roots) + Len(first_opener_symbol)))

\* parser.py 178-183 and 191-233: the text split at the first opener
parse_body(h, result, depth, overall_position, first_lazy_opener, first_opener_symbol, halves) ==
    parse_sub_trees(h, result, depth, overall_position, first_lazy_opener,
        first_opener_symbol, halves[1], halves[2],
        find_closer(halves[2], <<first_opener_symbol>>, 0, overall_position))

\* parser.py 177-188: which opener comes first
parse_group(h, result, tree, depth, overall_position, first_opener, first_lazy_opener) ==
    IF valid_comp(first_lazy_opener, first_opener) < 0
    THEN parse_body(h, result, depth, overall_position, first_lazy_opener, lazy_opener,
                    SplitOnce(tree, lazy_opener))
    ELSE IF first_opener > -1
    THEN parse_body(h, result, depth, overall_position, first_lazy_opener, level_opener,
                    SplitOnce(tree, level_opener))
    ELSE Raise("ParseError",
               overall_position + valid_min(Find(tree, level_closer, 0), Len(tree)), h)

\* parser.py 167-253: one round of the loop over the sibling level-groups
parse_loop(h, result, tree, depth, overall_position) ==
    parse_group(h, result, tree, depth, overall_position,
                Find(tree, level_opener, 0), Find(tree, lazy_opener, 0))

\* parser.py 161: result = VariableDict()
parse_start(result, tree, depth, overall_position) ==
    parse_loop(result.h, result.r, tree, depth, overall_position)

\* parser.py 126-255, with depth converters, all of them int
parse_tree(h, tree, depth, overall_position) ==
    IF depth = 1 THEN unravel(h, tree, overall_position)
    ELSE parse_start(EmptyVariableDict(h), tree, depth, overall_position)

-----------------------------------------------------------------------------
(* variables.py: evaluate.  The evaluate of a variable is the set of the      *)
(* outcomes it can have, one for each draw of random.sample and each element  *)
(* set.pop may take.  The evaluate of a container takes draws, which gives    *)
(* for each of its variables the outcome that variable's evaluate had.        *)

\* what evaluate returned, and the exception it raised
Resolved(values) == [exc |-> "none", values |-> values]

Failed(exc) == [exc |-> exc, values |-> {}]

\* variables.py 188-189: {container[self._index]}, a negative index counting
\* from the end
IndexVariable_evaluate(self, container) ==
    IF -Len(container) <= self.n /\ self.n < Len(container)
    THEN {Resolved({container[(self.n % Len(container)) + 1]})}
    ELSE {Failed("IndexError")}

\* variables.py 200-201
SizeVariable_evaluate(self, container) == {Resolved({Len(container)})}

\* variables.py 233-234: set(container)
AllVariable_evaluate(self, container) == {Resolved(Range(container))}

\* set(random.sample(container, k)) for 0 <= k <= len(container): the values at
\* any k places of the container
sample(container, k) ==
    {{container[i] : i \in P} : P \in {Q \in SUBSET (1..Len(container)) : Cardinality(Q) = k}}

\* variables.py 314-319: the original value is removed when it was drawn, any
\* one element otherwise
remove_original(result, original_value) ==
    IF original_value.v \in result
    THEN {Resolved(result \ {original_value.v})}
    ELSE {Resolved(result \ {x}) : x \in result}

\* variables.py 298-319 (RandomVariable is SampleVariable with n = 1)
SampleVariable_evaluate(self, container, original_value) ==
    IF ~self.ex
    THEN IF self.n > Len(container) THEN {Failed("ResolveError")}
         ELSE IF self.n < 0 THEN {Failed("ValueError")}
         ELSE {Resolved(result) : result \in sample(container, self.n)}
    ELSE IF original_value = NoValue THEN {Failed("ResolveError")}
    ELSE IF self.n + 1 > Len(container) THEN {Failed("ResolveError")}
    ELSE IF self.n + 1 < 0 THEN {Failed("ValueError")}
    ELSE UNION {remove_original(result, original_value) :
                    result \in sample(container, self.n + 1)}

RECURSIVE evaluate(_, _, _)

\* set.pop() on what the end of a range evaluated to: any one element
pop_end(evaluated) ==
    IF evaluated.exc # "none" THEN {evaluated}
    ELSE IF evaluated.values = {} THEN {Failed("KeyError")}
    ELSE {Resolved({x}) : x \in evaluated.values}

\* variables.py 260-268: an end of the range is itself when it is no variable
\* (AttributeError), and else what pop() takes from its evaluate(container)
RangeVariable_end(end, container) ==
    IF IsVariable(end)
    THEN UNION {pop_end(evaluated) : evaluated \in evaluate(end, container, NoValue)}
    ELSE {Resolved({end.v})}

\* variables.py 270: set(range(first, last + 1))
RangeVariable_range(first, last) ==
    IF first.exc # "none" THEN first
    ELSE IF last.exc # "none" THEN last
    ELSE Resolved(UNION {UNION {a .. b : b \in last.values} : a \in first.values})

\* variables.py 256-270
RangeVariable_evaluate(self, container) ==
    {RangeVariable_range(first, last) :
        first \in RangeVariable_end(self.first, container),
        last \in RangeVariable_end(self.last, container)}

\* Variable.evaluate(container, original_value), by the class of the variable
evaluate(variable, container, original_value) ==
    CASE variable.t = "Index" -> IndexVariable_evaluate(variable, container)
      [] variable.t = "Size" -> SizeVariable_evaluate(variable, container)
      [] variable.t = "All" -> AllVariable_evaluate(variable, container)
      [] variable.t = "Range" -> RangeVariable_evaluate(variable, container)
      [] variable.t \in {"Sample", "Random"} ->
            SampleVariable_evaluate(variable, container, original_value)

\* what variable_part.evaluate(container) can return for each of the variables
Draws(variable_parts, container) ==
    {draws \in [variable_parts ->
                   UNION {evaluate(variable, container, NoValue) : variable \in variable_parts}] :
        \A variable \in variable_parts :
            draws[variable] \in evaluate(variable, container, NoValue)}

RECURSIVE VariableSet_update(_, _, _, _)
\* variables.py 120-122: self.update(variable_part.evaluate(container)) for each
\* variable part
VariableSet_update(h, self, variable_parts, draws) ==
    IF variable_parts = {} THEN Return(h, NoValue, self)
    ELSE IF draws[FirstKey(variable_parts)].exc # "none"
    THEN Raise(draws[FirstKey(variable_parts)].exc, -1, h)
    ELSE VariableSet_update(
             [h EXCEPT ![self].vset = @ \cup draws[FirstKey(variable_parts)].values],
             self, variable_parts \ {FirstKey(variable_parts)}, draws)

\* variables.py 116-122
VariableSet_evaluate(h, self, draws) ==
    VariableSet_update([h EXCEPT ![self].vset = h[self].fixed_parts, ![self].tset = {}],
                       self, h[self].variable_parts, draws)

RECURSIVE VariableDict_values(_, _, _, _)
RECURSIVE VariableDict_parts(_, _, _, _)

\* variables.py 87: self[variable] = the merged sub-tree
evaluate_store(merged, self, values, value, variable) ==
    IF merged.exc # "none" THEN merged
    ELSE VariableDict_values(SetVItem(merged.h, self, variable, merged.r), self,
                             values \ {variable}, value)

\* evaluate_item with the value of a key already present overwritten
evaluate_item_overwriting(h, self, values, value, variable) ==
    VariableDict_values(SetVItem(h, self, variable, value), self,
                        values \ {variable}, value)

\* variables.py 84-87: one value the variable part evaluated to
evaluate_item(h, self, values, value, variable) ==
    IF variable \notin DOMAIN h[self].vmap
    THEN VariableDict_values(SetVItem(h, self, variable, value), self,
                             values \ {variable}, value)
    ELSE evaluate_store(merge(h, h[self].vmap[variable], value), self, values, value,
                        variable)

\* variables.py 83-87: the loop over the values a variable part evaluated to
VariableDict_values(h, self, values, value) ==
    IF values = {} THEN Return(h, NoValue, self)
    ELSE evaluate_item(h, self, values, value, SetMin(values))

\* variables.py 82: on to the next variable part
evaluate_next(done, self, variable_parts, draws, variable_part) ==
    IF done.exc # "none" THEN done
    ELSE VariableDict_parts(done.h, self, variable_parts \ {variable_part}, draws)

\* variables.py 82-83: one item of self.variable_parts
evaluate_part(h, self, variable_parts, draws, variable_part) ==
    IF draws[variable_part].exc # "none" THEN Raise(draws[variable_part].exc, -1, h)
    ELSE evaluate_next(
             VariableDict_values(h, self, draws[variable_part].values,
                                 h[h[self].variable_parts].tmap[variable_part]),
             self, variable_parts, draws, variable_part)

\* variables.py 81-87: the loop over self.variable_parts.items()
VariableDict_parts(h, self, variable_parts, draws) ==
    IF variable_parts = {} THEN Return(h, NoValue, self)
    ELSE evaluate_part(h, self, variable_parts, draws, FirstKey(variable_parts))

\* variables.py 77-87
VariableDict_evaluate(h, self, draws) ==
    VariableDict_parts([h EXCEPT ![self].vmap = h[h[self].fixed_parts].vmap,
                                 ![self].tmap = EmptyMap],
                       self, DOMAIN h[h[self].variable_parts].tmap, draws)

-----------------------------------------------------------------------------
(* What a container holds, as a value: the view of the object r of heap h, *)
(* with the views of its sub-trees in place of the references to them      *)

RECURSIVE View(_, _)
View(h, r) ==
    IF h[r].kind = "VS" THEN h[r]
    ELSE [kind |-> "VD",
          fixed_parts |-> [k \in DOMAIN h[h[r].fixed_parts].vmap |->
                              View(h, h[h[r].fixed_parts].vmap[k])],
          variable_parts |-> [k \in DOMAIN h[h[r].variable_parts].tmap |->
                                 View(h, h[h[r].variable_parts].tmap[k])],
          vmap |-> [k \in DOMAIN h[r].vmap |-> View(h, h[r].vmap[k])],
          tmap |-> [k \in DOMAIN h[r].tmap |-> View(h, h[r].tmap[k])]]

-----------------------------------------------------------------------------
(* The calling program *)

NoOutcome == [call |-> "none", exc |-> "none", pos |-> -1, val |-> NoValue, r |-> 0]

Outcome(call, res) ==
    [call |-> call, exc |-> res.exc, pos |-> res.pos, val |-> res.val, r |-> res.r]

NoOperand == [start |-> 0]

\* the characters a free-form text is typed from
Alphabet == Digits \cup {"x", ",", "~", ":", "[", "]", "#", "?", "*"}

\* the strict openers a caller configures
LevelOpeners == {default_level_opener, bracket_level_opener}

\* the positions a caller gives as overall_position
Starts == {0, 1}

\* nothing typed, nothing called, nothing kept
InitCaller ==
    /\ pc = "input"
    /\ text = <<>>
    /\ heap = <<>>
    /\ outcome = NoOutcome
    /\ original = NoValue
    /\ shape = <<>>
    /\ kept = <<>>
    /\ before = <<>>
    /\ log = <<>>

\* the parser alone: either strict opener, no value space
InitInput ==
    /\ InitCaller
    /\ level_opener \in LevelOpeners
    /\ space = <<>>

\* the caller types one more character of the text
Type(c) ==
    /\ pc = "input"
    /\ Len(text) < MaxLen
    /\ text' = Append(text, c)
    /\ UNCHANGED <<pc, level_opener, heap, outcome, space, original, operand, shape,
                   kept, before, log>>

\* convert(text, int, overall_position = start)
CallConvert ==
    /\ pc = "input"
    /\ LET res == convert(heap, text, operand.start)
       IN  /\ heap' = res.h
           /\ outcome' = Outcome("convert", res)
    /\ pc' = "done"
    /\ UNCHANGED <<text, level_opener, space, original, operand, shape, kept, before, log>>

\* unravel(text, int, overall_position = start)
CallUnravel ==
    /\ pc = "input"
    /\ LET res == unravel(heap, text, operand.start)
       IN  /\ heap' = res.h
           /\ outcome' = Outcome("unravel", res)
    /\ pc' = "done"
    /\ UNCHANGED <<text, level_opener, space, original, operand, shape, kept, before, log>>

\* parse_tree(text, [int, int], overall_position = start)
CallParseTree ==
    /\ pc = "input"
    /\ LET res == parse_tree(heap, text, 2, operand.start)
       IN  /\ heap' = res.h
           /\ outcome' = Outcome("parse_tree", res)
    /\ pc' = "done"
    /\ UNCHANGED <<text, level_opener, space, original, operand, shape, kept, before, log>>

(* Free-form texts: every string over Alphabet of up to MaxLen characters *)

InitFuzz == InitInput /\ operand = NoOperand

NextFuzz ==
    \/ \E c \in Alphabet : Type(c)
    \/ CallConvert
    \/ CallUnravel
    \/ CallParseTree

SpecFuzz == InitFuzz /\ [][NextFuzz]_vars

(* Tree texts: sibling level-groups put together from listings *)

\* A listing, with the values it lists (vals; bad when it holds a token no
\* converter accepts)
Listing(s, vals, bad) == [s |-> s, vals |-> vals, bad |-> bad]

LiteralRoots ==
    { Listing(<<"0">>, {0}, FALSE),
      Listing(<<"0", ",", "1">>, {0, 1}, FALSE),
      Listing(<<"1", "~", "2">>, {1, 2}, FALSE) }

LiteralBodies ==
    { Listing(<<"2", ",", "3">>, {2, 3}, FALSE),
      Listing(<<"3">>, {3}, FALSE),
      Listing(<<"1", "~", "2">>, {1, 2}, FALSE),
      Listing(<<>>, {}, FALSE) }

\* listings with the malformed token x: alone, as a later segment, as either
\* end of a range
BrokenBodies ==
    { Listing(<<"x">>, {}, TRUE),
      Listing(<<"2", ",", "x">>, {}, TRUE),
      Listing(<<"2", "~", "x">>, {}, TRUE),
      Listing(<<"x", "~", "2">>, {}, TRUE) }

\* the forms of a level-group: R:[L] (strict), R:L (lazy), R:[L (open: the
\* strict opener is never closed)
GroupOpener(form) == IF form = "lazy" THEN lazy_opener ELSE level_opener

GroupCloser(form) == IF form = "strict" THEN level_closer ELSE <<>>

\* the caller writes one more level-group after the strict groups written so far
AddGroup(R, L, form) ==
    /\ pc = "input"
    /\ Len(shape) < MaxGroups
    /\ shape # <<>> => shape[Len(shape)].form = "strict"
    /\ text' = text \o (IF shape = <<>> THEN <<>> ELSE level_delimiter)
                    \o R.s \o GroupOpener(form) \o L.s \o GroupCloser(form)
    /\ shape' = Append(shape, [roots |-> R, body |-> L, form |-> form])
    /\ UNCHANGED <<pc, level_opener, heap, outcome, space, original, operand,
                   kept, before, log>>

InitTree == InitInput /\ operand \in [start : Starts]

\* well-formed trees of literal listings
NextTree ==
    \/ \E R \in LiteralRoots, L \in LiteralBodies, form \in {"strict", "lazy"} :
          AddGroup(R, L, form)
    \/ CallParseTree

SpecTree == InitTree /\ [][NextTree]_vars

\* trees with malformed tokens and unclosed openers
NextBroken ==
    \/ \E R \in LiteralRoots, L \in LiteralBodies \cup BrokenBodies,
          form \in {"strict", "lazy", "open"} :
          AddGroup(R, L, form)
    \/ CallParseTree

SpecBroken == InitTree /\ [][NextBroken]_vars

(* Sampling: one SampleVariable or RandomVariable evaluated on a value space *)

\* the values a value space holds
Values == {0, 1, 2}

\* the value spaces: the sequences of up to MaxSpace values, repeated values
\* included
Spaces(values) == UNION {[1..n -> values] : n \in 0..MaxSpace}

\* SampleVariable(n, exclude_original) and RandomVariable(exclude_original)
SampleVariables ==
    {[t |-> "Sample", n |-> n, ex |-> ex] : n \in 0..MaxN, ex \in BOOLEAN}
        \cup {[t |-> "Random", n |-> 1, ex |-> ex] : ex \in BOOLEAN}

InitSample ==
    /\ pc = "input"
    /\ text = <<>>
    /\ level_opener = default_level_opener
    /\ \E fields \in SampleVariables :
          /\ heap = NewVariable(<<>>, fields).h
          /\ operand = [variable |-> NewVariable(<<>>, fields).val]
    /\ outcome = NoOutcome
    /\ space \in Spaces(Values)
    /\ original \in {NoValue} \cup {Lit(v) : v \in Values}
    /\ shape = <<>>
    /\ kept = <<>>
    /\ before = <<>>
    /\ log = <<>>

\* variable.evaluate(space, original): any of the outcomes the draw allows
CallEvaluate ==
    /\ pc = "input"
    /\ \E evaluated \in evaluate(operand.variable, space, original) :
          outcome' = [call |-> "evaluate", exc |-> evaluated.exc, pos |-> -1,
                      val |-> evaluated.values, r |-> 0]
    /\ pc' = "done"
    /\ UNCHANGED <<text, level_opener, heap, space, original, operand, shape, kept,
                   before, log>>

NextSample == CallEvaluate

SpecSample == InitSample /\ [][NextSample]_vars

(* Resolution: a parsed tree with variable keys evaluated on a value space *)

\* roots with variable keys, and bodies
KeyRoots ==
    { Listing(<<"0">>, {0}, FALSE),
      Listing(<<"#", "0">>, {}, FALSE),
      Listing(<<"0", ",", "#", "1">>, {0}, FALSE),
      Listing(<<"*">>, {}, FALSE),
      Listing(<<"?">>, {}, FALSE) }

KeyBodies ==
    { Listing(<<"2">>, {2}, FALSE),
      Listing(<<"3", ",", "#", "0">>, {3}, FALSE) }

\* the value spaces a tree is resolved on: #1 is out of range in some, #0 and
\* #1 are the same value in one, there is nothing to draw in one
KeySpaces == {<<>>, <<0>>, <<0, 0>>, <<0, 1>>, <<1, 0>>}

InitEvaluate ==
    /\ InitCaller
    /\ level_opener = default_level_opener
    /\ operand = NoOperand
    /\ space \in KeySpaces

\* self.evaluate(space) on the keyed-tree self, with the draws of its variable keys
EvaluateTree(self) ==
    /\ Len(log) < MaxSteps
    /\ \E draws \in Draws(DOMAIN heap[heap[self].variable_parts].tmap, space) :
          /\ heap' = VariableDict_evaluate(heap, self, draws).h
          /\ outcome' = Outcome("evaluate", VariableDict_evaluate(heap, self, draws))
          /\ log' = Append(log, [op |-> "evaluate", self |-> self, draws |-> draws])
    /\ UNCHANGED <<pc, text, level_opener, space, original, operand, shape, kept, before>>

\* the tree parse_tree returned is resolved, once
EvaluateParsed ==
    /\ pc = "done" /\ outcome.call = "parse_tree" /\ outcome.exc = "none"
    /\ log = <<>>
    /\ EvaluateTree(outcome.r)

NextEvaluate ==
    \/ \E R \in KeyRoots, L \in KeyBodies : AddGroup(R, L, "strict")
    \/ CallParseTree
    \/ EvaluateParsed

SpecEvaluate == InitEvaluate /\ [][NextEvaluate]_vars

(* Merging: two parsed trees merged, and the merged tree changed *)

MergeRoots ==
    { Listing(<<"0", ",", "1">>, {0, 1}, FALSE),
      Listing(<<"#", "0">>, {}, FALSE) }

MergeBodies ==
    { Listing(<<"2">>, {2}, FALSE),
      Listing(<<"?">>, {}, FALSE) }

\* the value spaces the merged tree is resolved on
MergeSpaces == {<<0, 1>>}

\* the keys and values a caller adds: one that is there, one that is new
NewKeys == {1, 3}

InitMerge ==
    /\ InitCaller
    /\ level_opener = default_level_opener
    /\ operand = NoOperand
    /\ space \in MergeSpaces

\* each of the two trees is a single level-group
AddOperandGroup(R, L) ==
    /\ Len(kept) < 2
    /\ shape = <<>>
    /\ AddGroup(R, L, "strict")

\* the calling program keeps the tree parse_tree returned and starts a new text
Keep ==
    /\ pc = "done" /\ outcome.call = "parse_tree" /\ outcome.exc = "none"
    /\ Len(kept) < 2
    /\ kept' = Append(kept, outcome.r)
    /\ pc' = "input"
    /\ text' = <<>>
    /\ shape' = <<>>
    /\ outcome' = NoOutcome
    /\ UNCHANGED <<level_opener, heap, space, original, operand, before, log>>

\* merged = merge(first, second)
CallMerge ==
    /\ pc = "input" /\ Len(kept) = 2
    /\ heap' = merge(heap, kept[1], kept[2]).h
    /\ outcome' = Outcome("merge", merge(heap, kept[1], kept[2]))
    /\ kept' = Append(kept, merge(heap, kept[1], kept[2]).r)
    /\ before' = <<View(heap, kept[1]), View(heap, kept[2])>>
    /\ pc' = "merged"
    /\ UNCHANGED <<text, level_opener, space, original, operand, shape, log>>

Merged == pc = "merged" /\ Len(kept) = 3 /\ kept[3] # 0

\* the sub-trees of the keyed-tree self, under its keys and in its partitions
SubTrees(h, self) ==
    Range(h[self].vmap) \cup Range(h[self].tmap)
        \cup Range(h[h[self].fixed_parts].vmap) \cup Range(h[h[self].variable_parts].tmap)

\* merged.evaluate(space)
EvaluateMerged == Merged /\ EvaluateTree(kept[3])

\* sub.evaluate(space) on a sub-tree of merged
EvaluateSubTree(sub) ==
    /\ Merged /\ Len(log) < MaxSteps
    /\ sub \in SubTrees(heap, kept[3])
    /\ \E draws \in Draws(heap[sub].variable_parts, space) :
          /\ heap' = VariableSet_evaluate(heap, sub, draws).h
          /\ outcome' = Outcome("evaluate", VariableSet_evaluate(heap, sub, draws))
          /\ log' = Append(log, [op |-> "evaluate", self |-> sub, draws |-> draws])
    /\ UNCHANGED <<pc, text, level_opener, space, original, operand, shape, kept, before>>

\* merged.fixed_parts[key] = merged[key] = VariableSet({key})
SetItem(key) ==
    /\ Merged /\ Len(log) < MaxSteps
    /\ heap' = SetVItem(SetVItem(VariableSet(heap, {key}, {}).h, kept[3], key,
                                 VariableSet(heap, {key}, {}).r),
                        heap[kept[3]].fixed_parts, key, VariableSet(heap, {key}, {}).r)
    /\ log' = Append(log, [op |-> "setitem", self |-> kept[3], key |-> key])
    /\ UNCHANGED <<pc, text, level_opener, outcome, space, original, operand, shape, kept,
                   before>>

\* sub.add(value) and sub.fixed_parts.add(value) on a sub-tree of merged
AddValue(sub, value) ==
    /\ Merged /\ Len(log) < MaxSteps
    /\ sub \in SubTrees(heap, kept[3])
    /\ heap' = [heap EXCEPT ![sub].vset = @ \cup {value},
                            ![sub].fixed_parts = @ \cup {value}]
    /\ log' = Append(log, [op |-> "add", self |-> sub, key |-> value])
    /\ UNCHANGED <<pc, text, level_opener, outcome, space, original, operand, shape, kept,
                   before>>

\* merged[key] = merge(merged[key], sub) for a sub-tree of second
MergeItem(key, sub) ==
    /\ Merged /\ Len(log) < MaxSteps
    /\ key \in DOMAIN heap[kept[3]].vmap
    /\ sub \in SubTrees(heap, kept[2])
    /\ heap' = SetVItem(merge(heap, heap[kept[3]].vmap[key], sub).h, kept[3], key,
                        merge(heap, heap[kept[3]].vmap[key], sub).r)
    /\ log' = Append(log, [op |-> "merge", self |-> kept[3], key |-> key])
    /\ UNCHANGED <<pc, text, level_opener, outcome, space, original, operand, shape, kept,
                   before>>

NextMerge ==
    \/ \E R \in MergeRoots, L \in MergeBodies : AddOperandGroup(R, L)
    \/ CallParseTree
    \/ Keep
    \/ CallMerge
    \/ EvaluateMerged
    \/ \E sub \in 1..Len(heap) : EvaluateSubTree(sub)
    \/ \E key \in NewKeys : SetItem(key)
    \/ \E sub \in 1..Len(heap), value \in NewKeys : AddValue(sub, value)
    \/ \E key \in NewKeys, sub \in 1..Len(heap) : MergeItem(key, sub)

SpecMerge == InitMerge /\ [][NextMerge]_vars

(* Ranges: a listing of one range, as unravel reads it, and the range        *)
(* evaluated on a value space                                                *)

\* the ends of a range: literals, leave variables, and the variables that
\* evaluate to several values
EndTexts ==
    { <<"0">>, <<"2">>, <<"#", "0">>, <<"#", "#">>, <<"*">>, <<"?">>, <<"?", "2">> }

InitRange ==
    /\ InitCaller
    /\ level_opener = default_level_opener
    /\ operand = NoOperand
    /\ space \in Spaces(Values)

\* the caller writes the range first~last
WriteRange(first, last) ==
    /\ pc = "input" /\ text = <<>>
    /\ text' = first \o range_delimiter \o last
    /\ UNCHANGED <<pc, level_opener, heap, outcome, space, original, operand, shape, kept, before, log>>

\* variable.evaluate(space) on the variable with identity id of the value-set
\* unravel returned
EvaluateElement(id) ==
    /\ pc = "done" /\ outcome.call = "unravel" /\ outcome.exc = "none"
    /\ \E variable \in {v \in heap[outcome.r].variable_parts : v.id = id} :
          /\ \E evaluated \in evaluate(variable, space, NoValue) :
                outcome' = [call |-> "evaluate", exc |-> evaluated.exc, pos |-> -1,
                            val |-> evaluated.values, r |-> 0]
          /\ log' = <<[op |-> "evaluate", variable |-> variable]>>
    /\ pc' = "evaluated"
    /\ UNCHANGED <<text, level_opener, heap, space, original, operand, shape, kept, before>>

NextRange ==
    \/ \E first \in EndTexts, last \in EndTexts : WriteRange(first, last)
    \/ CallUnravel
    \/ \E id \in 1..Len(heap) : EvaluateElement(id)

SpecRange == InitRange /\ [][NextRange]_vars

(* Three levels: a level-group put behind a lazy opener, parsed with three    *)
(* converters                                                                *)

\* the caller writes the level-group of the second and third level
AddInner(R, L, form) ==
    /\ shape = <<>>
    /\ AddGroup(R, L, form)

\* the caller puts the text behind the roots R and the lazy opener: R:text
Nest(R) ==
    /\ pc = "input"
    /\ Len(shape) = 1 /\ "inner" \notin DOMAIN shape[1]
    /\ text' = R.s \o lazy_opener \o text
    /\ shape' = <<[roots |-> R, body |-> Listing(text, {}, FALSE), form |-> "lazy",
                   inner |-> shape[1]]>>
    /\ UNCHANGED <<pc, level_opener, heap, outcome, space, original, operand, kept, before, log>>

\* parse_tree(text, [int, int, int], overall_position = start)
CallParseTree3 ==
    /\ pc = "input"
    /\ Len(shape) = 1 /\ "inner" \in DOMAIN shape[1]
    /\ heap' = parse_tree(heap, text, 3, operand.start).h
    /\ outcome' = Outcome("parse_tree", parse_tree(heap, text, 3, operand.start))
    /\ pc' = "done"
    /\ UNCHANGED <<text, level_opener, space, original, operand, shape, kept, before, log>>

NextLazy ==
    \/ \E R \in LiteralRoots, L \in LiteralBodies, form \in {"strict", "lazy"} :
          AddInner(R, L, form)
    \/ \E R \in LiteralRoots : Nest(R)
    \/ CallParseTree3

SpecLazy == InitTree /\ [][NextLazy]_vars

(* Two strict level-groups with other text than the level delimiter between *)
(* them                                                                      *)

\* the caller writes sep and a further strict level-group behind the closer of
\* the first
AddSibling(R, L, sep) ==
    /\ pc = "input"
    /\ Len(shape) = 1 /\ shape[1].form = "strict"
    /\ text' = text \o sep \o R.s \o level_opener \o L.s \o level_closer
    /\ shape' = Append(shape, [roots |-> R, body |-> L, form |-> "strict", sep |-> sep])
    /\ UNCHANGED <<pc, level_opener, heap, outcome, space, original, operand, kept, before, log>>

NextSibling ==
    \/ \E R \in LiteralRoots, L \in LiteralBodies, form \in {"strict", "lazy"} :
          AddGroup(R, L, form)
    \/ \E R \in LiteralRoots, L \in LiteralBodies :
          \E sep \in {<<>>, <<"x">>, <<"x", "x">>, level_closer, lazy_opener} :
             AddSibling(R, L, sep)
    \/ CallParseTree

SpecSibling == InitTree /\ [][NextSibling]_vars

(* Resolving the sub-tree under one key of a parsed level-group *)

\* parsed[key].evaluate(space), parsed the keyed-tree parse_tree returned
EvaluateKey(key) ==
    /\ pc = "done" /\ outcome.call = "parse_tree" /\ outcome.exc = "none"
    /\ key \in DOMAIN heap[outcome.r].vmap
    /\ \E draws \in Draws(heap[heap[outcome.r].vmap[key]].variable_parts, space) :
          /\ heap' = VariableSet_evaluate(heap, heap[outcome.r].vmap[key], draws).h
          /\ outcome' = Outcome("evaluate",
                                VariableSet_evaluate(heap, heap[outcome.r].vmap[key], draws))
          /\ log' = <<[op |-> "evaluate", self |-> heap[outcome.r].vmap[key],
                       draws |-> draws, key |-> key]>>
    /\ kept' = <<outcome.r>>
    /\ before' = <<[k \in DOMAIN heap[outcome.r].vmap |-> View(heap, heap[outcome.r].vmap[k])],
                   [v \in DOMAIN heap[outcome.r].tmap |-> View(heap, heap[outcome.r].tmap[v])]>>
    /\ pc' = "resolved"
    /\ UNCHANGED <<text, level_opener, space, original, operand, shape>>

NextShared ==
    \/ \E R \in MergeRoots \cup KeyRoots, L \in MergeBodies \cup KeyBodies :
          AddOperandGroup(R, L)
    \/ CallParseTree
    \/ \E key \in Values : EvaluateKey(key)

SpecShared == InitEvaluate /\ [][NextShared]_vars

-----------------------------------------------------------------------------
(* The claims about the parser *)

Groups == 1..Len(shape)

ParsedTree == pc = "done" /\ outcome.call = "parse_tree" /\ shape # <<>>

AllStrict == \A i \in Groups : shape[i].form = "strict"

\* the values listed in the roots of all groups
RootValues == UNION {shape[i].roots.vals : i \in Groups}

\* the values listed in the bodies of the groups whose roots list k
BodyValues(k) == UNION {shape[i].body.vals : i \in {j \in Groups : k \in shape[j].roots.vals}}

\* C1: parse_tree on strict sibling level-groups R1:[L1],R2:[L2],... of literal
\* listings returns a keyed-tree whose keys are exactly the values listed in the
\* Ri, each key k mapped to a value-set holding exactly the values listed in the
\* Li whose Ri lists k.
C1_SiblingGroupsCombine ==
    (ParsedTree /\ AllStrict) =>
        /\ outcome.exc = "none"
        /\ heap[outcome.r].kind = "VD"
        /\ DOMAIN heap[outcome.r].vmap = RootValues
        /\ DOMAIN heap[outcome.r].tmap = {}
        /\ \A k \in RootValues :
              LET sub == heap[heap[outcome.r].vmap[k]]
              IN  /\ sub.kind = "VS"
                  /\ sub.vset = BodyValues(k)
                  /\ sub.tset = {}

\* two groups share a root key and list different bodies
C1_Witness ==
    /\ ParsedTree /\ AllStrict /\ outcome.exc = "none"
    /\ Len(shape) = 2
    /\ shape[1].roots.vals \cap shape[2].roots.vals # {}
    /\ shape[1].roots.vals # shape[2].roots.vals
    /\ shape[1].body.vals \ shape[2].body.vals # {}
    /\ shape[2].body.vals \ shape[1].body.vals # {}

\* the strict form of the single group of the text
StrictForm == shape[1].roots.s \o level_opener \o shape[1].body.s \o level_closer

\* C2: with two converters the lazy form R:L yields the same keyed-tree as the
\* strict form R:[L], for literal listings R and L.
C2_LazyEqualsStrict ==
    (ParsedTree /\ Len(shape) = 1 /\ shape[1].form = "lazy") =>
        LET strict == parse_tree(<<>>, StrictForm, 2, operand.start)
        IN  /\ outcome.exc = "none"
            /\ strict.exc = "none"
            /\ View(heap, outcome.r) = View(strict.h, strict.r)

C2_Witness ==
    /\ ParsedTree /\ Len(shape) = 1 /\ shape[1].form = "lazy"
    /\ outcome.exc = "none"
    /\ Cardinality(shape[1].roots.vals) = 2
    /\ Cardinality(shape[1].body.vals) = 2

AllDigits(s) == s # <<>> /\ \A i \in 1..Len(s) : s[i] \in Digits

Converted == pc = "done" /\ outcome.call = "convert"

\* C3: convert maps a token to a variable by its marker: ## to SizeVariable, #
\* and digits to IndexVariable of that number, ? to RandomVariable(False), ?? to
\* RandomVariable(True), ?? and digits k to SampleVariable(k, True).
C3_ConvertByMarker ==
    Converted =>
        /\ text = index_specifier \o index_specifier =>
              outcome.exc = "none" /\ outcome.val.t = "Size"
        /\ (startswith(text, index_specifier) /\ AllDigits(StrFrom(text, 1))) =>
              /\ outcome.exc = "none" /\ outcome.val.t = "Index"
              /\ outcome.val.n = Decimal(StrFrom(text, 1))
        /\ text = random_specifier =>
              outcome.exc = "none" /\ outcome.val.t = "Random" /\ ~outcome.val.ex
        /\ text = random_specifier \o random_specifier =>
              outcome.exc = "none" /\ outcome.val.t = "Random" /\ outcome.val.ex
        /\ (startswith(text, random_specifier \o random_specifier)
               /\ AllDigits(StrFrom(text, 2))) =>
              /\ outcome.exc = "none" /\ outcome.val.t = "Sample"
              /\ outcome.val.n = Decimal(StrFrom(text, 2)) /\ outcome.val.ex

\* C4: for every input string convert, unravel and parse_tree return a result
\* or raise a positioned ParseError, and no other exception.
C4_OnlyParseErrors ==
    pc = "done" => outcome.exc \in {"none", "ParseError"}

NoneOpen == \A i \in Groups : shape[i].form # "open"

\* C5: in a two-level tree the position of the ParseError raised for a malformed
\* token of a second-level listing is the token's offset in the original string,
\* for every segment of the listing and every sibling level-group.
C5_ErrorPositionAbsolute ==
    (ParsedTree /\ NoneOpen /\ \E i \in Groups : shape[i].body.bad) =>
        /\ outcome.exc = "ParseError"
        /\ outcome.pos = operand.start + Find(text, <<"x">>, 0)

\* C6: when the input ends with strict openers still on the stack, parse_tree
\* raises a ParseError at the end-of-input position of the original string.
C6_UnclosedAtEndOfInput ==
    (/\ ParsedTree
     /\ shape[Len(shape)].form = "open"
     /\ \A i \in Groups : i < Len(shape) => ~shape[i].body.bad) =>
        /\ outcome.exc = "ParseError"
        /\ outcome.pos = operand.start + Len(text)

-----------------------------------------------------------------------------
(* The claims about sampling *)

Sampled == pc = "done" /\ outcome.call = "evaluate"

\* C9: SampleVariable(n, exclude_original = false).evaluate on a value space of
\* size >= n returns a set of exactly n distinct elements, all of them from the
\* space, and on a value space of size < n raises ResolveError.
C9_SampleOfExactlyN ==
    (Sampled /\ ~operand.variable.ex) =>
        IF Len(space) >= operand.variable.n
        THEN /\ outcome.exc = "none"
             /\ Cardinality(outcome.val) = operand.variable.n
             /\ outcome.val \subseteq Range(space)
        ELSE outcome.exc = "ResolveError"

\* C10: SampleVariable(n, exclude_original = true).evaluate with an original value
\* present in a value space of size >= n + 1 returns, for every draw, a set of
\* exactly n elements without the original value; without an original value it
\* raises ResolveError.
C10_SampleExcludesOriginal ==
    (Sampled /\ operand.variable.ex) =>
        /\ original = NoValue => outcome.exc = "ResolveError"
        /\ (/\ original # NoValue
            /\ original.v \in Range(space)
            /\ Len(space) >= operand.variable.n + 1) =>
              /\ outcome.exc = "none"
              /\ Cardinality(outcome.val) = operand.variable.n
              /\ original.v \notin outcome.val

-----------------------------------------------------------------------------
(* The claims about the containers *)

Evaluated == log # <<>> /\ outcome.call = "evaluate" /\ outcome.exc = "none"

\* the keyed-tree evaluated last, its partitions and the values drawn for its
\* variable keys
EvaluatedTree == log[Len(log)].self

FixedParts == heap[heap[EvaluatedTree].fixed_parts].vmap

VariableParts == heap[heap[EvaluatedTree].variable_parts].tmap

ResolvedTo(variable) == log[Len(log)].draws[variable].values

\* the variable keys that resolved to the key x, and the sub-trees that meet at x
VariablesAt(x) == {variable \in DOMAIN VariableParts : x \in ResolvedTo(variable)}

SourcesAt(x) ==
    {FixedParts[k] : k \in DOMAIN FixedParts \cap {x}}
        \cup {VariableParts[variable] : variable \in VariablesAt(x)}

Collides(x) == Cardinality(DOMAIN FixedParts \cap {x}) + Cardinality(VariablesAt(x)) > 1

\* C7: after VariableDict.evaluate the keys are the fixed keys and the values the
\* variable keys resolved to, and no variable key; the sub-tree at a key where
\* several keys collide holds the fixed and variable parts of all the colliding
\* sub-trees; the sub-tree at a key that does not collide is that key's own.
C7_CollidingKeysMerge ==
    Evaluated =>
        /\ DOMAIN heap[EvaluatedTree].tmap = {}
        /\ DOMAIN heap[EvaluatedTree].vmap =
              DOMAIN FixedParts \cup UNION {ResolvedTo(variable) : variable \in DOMAIN VariableParts}
        /\ \A x \in DOMAIN heap[EvaluatedTree].vmap :
              /\ heap[heap[EvaluatedTree].vmap[x]].kind = "VS"
              /\ heap[heap[EvaluatedTree].vmap[x]].fixed_parts =
                    UNION {heap[sub].fixed_parts : sub \in SourcesAt(x)}
              /\ heap[heap[EvaluatedTree].vmap[x]].variable_parts =
                    UNION {heap[sub].variable_parts : sub \in SourcesAt(x)}
              /\ ~Collides(x) => heap[EvaluatedTree].vmap[x] \in SourcesAt(x)

\* a fixed key and a resolved key collide with sub-trees that differ, and
\* another key does not collide
C7_Witness ==
    /\ Evaluated
    /\ \E x \in DOMAIN FixedParts, variable \in DOMAIN VariableParts :
          /\ x \in ResolvedTo(variable)
          /\ heap[FixedParts[x]].fixed_parts \ heap[VariableParts[variable]].fixed_parts # {}
          /\ heap[VariableParts[variable]].fixed_parts \ heap[FixedParts[x]].fixed_parts # {}
    /\ \E x \in DOMAIN heap[EvaluatedTree].vmap : ~Collides(x)

\* C8: once merged = merge(first, second) is made, whatever is done to merged
\* (evaluate on it or on a sub-tree of it, keys and values added, sub-trees
\* merged into it), first and second hold what they held before the merge:
\* the same items and the same fixed and variable parts, at every depth.
C8_MergeSharesNothing ==
    Len(kept) = 3 =>
        /\ View(heap, kept[1]) = before[1]
        /\ View(heap, kept[2]) = before[2]

\* merged was evaluated and a value was added to one of its sub-trees
C8_Witness ==
    /\ Len(kept) = 3 /\ Len(log) = 2
    /\ \E i, j \in 1..2 : log[i].op = "evaluate" /\ log[i].self = kept[3] /\ log[j].op = "add"
    /\ DOMAIN before[1].variable_parts # {}
    /\ DOMAIN before[2].fixed_parts # {}

-----------------------------------------------------------------------------
(* The claims about ranges *)

RangeEvaluated == pc = "evaluated" /\ log[1].variable.t = "Range"

\* an AllVariable or SampleVariable that evaluates to more than one value on the
\* value space, whatever is drawn
ManyValued(end) ==
    /\ end.t \in {"All", "Sample"}
    /\ \A evaluated \in evaluate(end, space, NoValue) :
          evaluated.exc = "none" /\ Cardinality(evaluated.values) > 1

\* C11: RangeVariable.evaluate with an end that is an AllVariable or a
\* SampleVariable evaluating to more than one value raises ResolveError; it
\* never builds a range from one of the values.
C11_RangeEndsAreSingle ==
    (/\ RangeEvaluated
     /\ ManyValued(log[1].variable.first) \/ ManyValued(log[1].variable.last)) =>
        outcome.exc = "ResolveError"

-----------------------------------------------------------------------------
(* The claims about lazy openers and sibling groups *)

\* C12: with three converters, a level-group R:B whose first opener is lazy and
\* whose body B runs to the end of input parses to the same keyed-tree as
\* R:[B], also when B ends with the strict closer of its own nested level
\* (0:1:[2] as 0:[1:[2]]).
C12_LazyBodyRunsToEnd ==
    (ParsedTree /\ Len(shape) = 1 /\ "inner" \in DOMAIN shape[1]) =>
        /\ outcome.exc = "none"
        /\ parse_tree(<<>>, StrictForm, 3, operand.start).exc = "none"
        /\ View(heap, outcome.r) =
              View(parse_tree(<<>>, StrictForm, 3, operand.start).h,
                   parse_tree(<<>>, StrictForm, 3, operand.start).r)

\* C13: when the strict closer that ended the body of the first level-group is
\* followed by other text than the level delimiter, no further sibling group
\* is parsed from the remainder: a keyed-tree that parse_tree returns is the
\* keyed-tree of the first group alone.
C13_SiblingOnlyAfterDelimiter ==
    (ParsedTree /\ Len(shape) = 2 /\ "sep" \in DOMAIN shape[2] /\ outcome.exc = "none") =>
        View(heap, outcome.r) =
           View(parse_tree(<<>>, StrictForm, 2, operand.start).h,
                parse_tree(<<>>, StrictForm, 2, operand.start).r)

-----------------------------------------------------------------------------
(* The claim about the sub-trees of one level-group *)

\* C14: in the keyed-tree parsed from a level-group, resolving in place the
\* sub-tree under one key leaves the sub-tree under every other key, fixed or
\* variable, as it was.
C14_SubTreesIndependent ==
    pc = "resolved" =>
        /\ \A k \in DOMAIN heap[kept[1]].vmap \ {log[1].key} :
              View(heap, heap[kept[1]].vmap[k]) = before[1][k]
        /\ \A v \in DOMAIN heap[kept[1]].tmap :
              View(heap, heap[kept[1]].tmap[v]) = before[2][v]

====
